---------------------------- MODULE Spec2Model ----------------------------
(***************************************************************************)
(* Model of the Cash Flow Story calculation engine                         *)
(* (backend/calculations.py) and of its batch endpoint (backend/main.py).  *)
(*                                                                         *)
(* Numbers.  Amounts are integers.  A metric is the value the code rounds  *)
(* to 2 decimals: it is held as the integer number of hundredths           *)
(* (40.0 is 4000, 0.5 is 50).  round(x, 2) is round-half-to-even of the    *)
(* exact quotient, which is what Python's round and pandas' round give on  *)
(* the quotients of the model's amounts.  The binary representation error  *)
(* of a float (0.1 + 0.2 /= 0.3) is below the model's resolution.          *)
(*                                                                         *)
(* A dict is a function from the keys it holds; None is the value None.    *)
(***************************************************************************)
EXTENDS Integers, Sequences, FiniteSets, TLC

VARIABLES
    financial_data,   \* calculate_analytics: the current period's dict
    previous_period,  \* calculate_analytics: the previous period's dict, or None
    analytics,        \* calculate_analytics: the returned dict, None before the call
    request,          \* calculate_batch: the BatchCalculationRequest
    i,                \* calculate_batch: the loop's index
    results,          \* calculate_batch: the list of AnalyticsResponse built so far
    response,         \* calculate_batch: the BatchAnalyticsResponse, None before the return
    df,               \* calculate_analytics_df: the caller's DataFrame, a sequence of rows
    df_result,        \* calculate_analytics_df: the returned DataFrame, None before the call
    submitted,        \* validate_financial_data: the dict to validate
    validation,       \* validate_financial_data: the returned tuple, None before the call
    metric_name,      \* get_metric_explanation: the name looked up
    explanation,      \* get_metric_explanation: the returned string
    tasks,            \* concurrent batch: each period's computation
    pc                \* the caller's position

vars ==
    <<financial_data, previous_period, analytics, request, i, results, response,
      df, df_result, submitted, validation, metric_name, explanation, tasks, pc>>

\* the state of validate_financial_data, get_metric_explanation and the
\* concurrent batch, which the operations below leave alone
aside == <<submitted, validation, metric_name, explanation, tasks>>

---------------------------------------------------------------------------
(* Bounds of the model *)

\* the largest amount an input field takes
MaxAmount == 3
\* the most periods of a batch request
MaxPeriods == 2
\* the most rows of a DataFrame
MaxRows == 2

---------------------------------------------------------------------------
(* Values *)

None == [tag |-> "None"]

\* that state before any of the three is called
NotCalled ==
    /\ submitted = None
    /\ validation = None
    /\ metric_name = ""
    /\ explanation = ""
    /\ tasks = <<>>

EmptyDict == [k \in {} |-> 0]

PLFields ==
    {"revenue", "cost_of_goods", "overheads", "depreciation",
     "interest_paid", "tax_paid"}

AssetFields == {"cash", "accounts_receivable", "inventory", "fixed_assets"}

LiabilityFields ==
    {"current_liabilities", "noncurrent_liabilities", "accounts_payable"}

Fields == PLFields \cup AssetFields \cup LiabilityFields

\* dict.get(key, default)
Get(d, key, default) == IF key \in DOMAIN d THEN d[key] ELSE default

\* Variant of Put: return_on_equity is stored under the key 'roe', the name
\* the examples of models.py use.
PutRoe(d, key, value) ==
    ((IF key = "return_on_equity" THEN "roe" ELSE key) :> value) @@ d

\* analytics[key] = value
Put(d, key, value) == (key :> value) @@ d

\* the truth value Python gives an Optional[dict]: None and {} are false
Truthy(d) == d /= None /\ DOMAIN d /= {}

Abs(x) == IF x < 0 THEN -x ELSE x

RECURSIVE Gcd(_, _)
Gcd(a, b) == IF b = 0 THEN a ELSE Gcd(b, a % b)

\* The integer nearest to n / d (d > 0), a tie going to the even one.
RoundHalfEven(n, d) ==
    LET q == n \div d
        r == n - q * d
    IN  IF 2 * r < d THEN q
        ELSE IF 2 * r > d THEN q + 1
        ELSE IF q % 2 = 0 THEN q ELSE q + 1

\* round(n / d * factor, 2) in hundredths, for d > 0.
Round2(n, d, factor) ==
    LET g == Gcd(Abs(n), d)
    IN  RoundHalfEven((n \div g) * factor * 100, d \div g)

---------------------------------------------------------------------------
(* calculate_analytics *)

\* Variant of Guarded: only a denominator of exactly 0 is guarded.
GuardedNonZero(n, d, factor) ==
    IF d > 0 THEN Round2(n, d, factor)
    ELSE IF d < 0 THEN Round2(-n, -d, factor)
    ELSE 0

\* round((n / d * factor) if d > 0 else 0, 2)
Guarded(n, d, factor) == IF d > 0 THEN Round2(n, d, factor) ELSE 0

\* financial_data.get(key, 0)
Field(data, key) == Get(data, key, 0)

\* Variant of gross_margin: the overheads are subtracted too.
gross_margin_less_overheads(data) ==
    Field(data, "revenue") - Field(data, "cost_of_goods") - Field(data, "overheads")

gross_margin(data) == Field(data, "revenue") - Field(data, "cost_of_goods")

operating_profit(data) == gross_margin(data) - Field(data, "overheads")

ebitda(data) == operating_profit(data) + Field(data, "depreciation")

net_profit_before_tax(data) == operating_profit(data) - Field(data, "interest_paid")

\* Variant of net_profit: the tax is not subtracted.
net_profit_untaxed(data) == net_profit_before_tax(data)

net_profit(data) == net_profit_before_tax(data) - Field(data, "tax_paid")

current_assets(data) ==
    Field(data, "cash") + Field(data, "accounts_receivable") + Field(data, "inventory")

working_capital(data) == current_assets(data) - Field(data, "current_liabilities")

total_assets(data) == current_assets(data) + Field(data, "fixed_assets")

total_liabilities(data) ==
    Field(data, "current_liabilities") + Field(data, "noncurrent_liabilities")

\* Variant of equity: the non-current liabilities are not subtracted.
equity_less_current(data) == total_assets(data) - Field(data, "current_liabilities")

equity(data) == total_assets(data) - total_liabilities(data)

total_capital(data) == working_capital(data) + Field(data, "fixed_assets")

total_capital_debt(data) == equity(data) + total_liabilities(data)

\* Variant of revenue_growth_percent: only a previous revenue of exactly 0 is
\* guarded.
revenue_growth_nonzero(revenue, previous) ==
    IF Truthy(previous) /\ Get(previous, "revenue", 0) /= 0
    THEN IF previous["revenue"] > 0
         THEN Round2(revenue - previous["revenue"], previous["revenue"], 100)
         ELSE Round2(previous["revenue"] - revenue, -previous["revenue"], 100)
    ELSE 0

\* Variant of revenue_growth_percent: the growth is taken over the previous
\* revenue net of the previous cost of goods.
revenue_growth_over_margin(revenue, previous) ==
    IF Truthy(previous) /\ Get(previous, "revenue", 0) > 0
    THEN Round2(revenue - (previous["revenue"] - Get(previous, "cost_of_goods", 0)),
                previous["revenue"], 100)
    ELSE 0

\* metric 1
revenue_growth_percent(revenue, previous) ==
    IF Truthy(previous) /\ Get(previous, "revenue", 0) > 0
    THEN Round2(revenue - previous["revenue"], previous["revenue"], 100)
    ELSE 0

\* Variant of working_capital_days: the payable days are added.
working_capital_days_added(a) ==
    RoundHalfEven(a["accounts_receivable_days"] + a["inventory_days"]
                  + a["accounts_payable_days"], 1)

\* metric 10, from the three metrics already stored in the dict
working_capital_days(a) ==
    RoundHalfEven(a["accounts_receivable_days"] + a["inventory_days"]
                  - a["accounts_payable_days"], 1)

\* Variant of accounts_receivable_days: the receivables are set against the
\* cost of goods, as the inventory and the payables are.
accounts_receivable_days_on_cogs(data) ==
    Guarded(Field(data, "accounts_receivable"), Field(data, "cost_of_goods"), 365)

\* metric 7
accounts_receivable_days(data) ==
    Guarded(Field(data, "accounts_receivable"), Field(data, "revenue"), 365)

calculate_analytics(data, previous) ==
    LET revenue == Field(data, "revenue")
        cogs == Field(data, "cost_of_goods")
        interest == Field(data, "interest_paid")
        a1 == Put(EmptyDict, "revenue_growth_percent",
                  revenue_growth_percent(revenue, previous))
        a2 == Put(a1, "gross_margin_percent",
                  Guarded(gross_margin(data), revenue, 100))
        a3 == Put(a2, "operating_profit_percent",
                  Guarded(operating_profit(data), revenue, 100))
        a4 == Put(a3, "net_profit_percent", Guarded(net_profit(data), revenue, 100))
        a5 == Put(a4, "ebitda_percent", Guarded(ebitda(data), revenue, 100))
        a6 == Put(a5, "interest_coverage",
                  Guarded(operating_profit(data), interest, 1))
        a7 == Put(a6, "accounts_receivable_days", accounts_receivable_days(data))
        a8 == Put(a7, "inventory_days", Guarded(Field(data, "inventory"), cogs, 365))
        a9 == Put(a8, "accounts_payable_days",
                  Guarded(Field(data, "accounts_payable"), cogs, 365))
        a10 == Put(a9, "working_capital_days", working_capital_days(a9))
        a11 == Put(a10, "working_capital_per_100",
                   Guarded(working_capital(data), revenue, 100))
        a12 == Put(a11, "current_ratio",
                   Guarded(current_assets(data), Field(data, "current_liabilities"), 1))
        a13 == Put(a12, "return_on_capital",
                   Guarded(operating_profit(data), total_capital(data), 100))
        a14 == Put(a13, "asset_turnover", Guarded(revenue, total_assets(data), 1))
        a15 == Put(a14, "return_on_equity",
                   Guarded(net_profit(data), equity(data), 100))
        a16 == Put(a15, "return_on_assets",
                   Guarded(net_profit(data), total_assets(data), 100))
        a17 == Put(a16, "fixed_assets_turnover",
                   Guarded(revenue, Field(data, "fixed_assets"), 1))
        a18 == Put(a17, "debt_to_equity",
                   Guarded(total_liabilities(data), equity(data), 1))
        a19 == Put(a18, "debt_to_capital",
                   Guarded(total_liabilities(data), total_capital_debt(data), 1))
        a20 == Put(a19, "equity_ratio", Guarded(equity(data), total_assets(data), 100))
        a21 == Put(a20, "operating_cash_flow",
                   RoundHalfEven((net_profit(data) + Field(data, "depreciation")) * 100, 1))
    IN  a21

(* The exceptions of a call.  On numbers the statements of calculate_analytics
   raise in two places only: a division n / d raises ZeroDivisionError when
   d is 0, and previous_period['revenue'] raises KeyError when the dict lacks
   the key.  working_capital_days reads three keys stored just above it. *)
DivisionErrors(d) == IF d = 0 THEN {"ZeroDivisionError"} ELSE {}

\* Variant of GuardedErrors: the division is guarded by d >= 0.
GuardedErrorsNonNegative(d) == IF d >= 0 THEN DivisionErrors(d) ELSE {}

\* round((n / d * factor) if d > 0 else 0, 2) divides in its guarded branch
GuardedErrors(d) == IF d > 0 THEN DivisionErrors(d) ELSE {}

\* metric 1 reads previous_period['revenue'] and divides by it in its guarded
\* branch
GrowthErrors(previous) ==
    IF Truthy(previous) /\ Get(previous, "revenue", 0) > 0
    THEN IF "revenue" \in DOMAIN previous
         THEN DivisionErrors(previous["revenue"])
         ELSE {"KeyError"}
    ELSE {}

\* the denominators of the 18 guarded ratios
denominators(data) ==
    {Field(data, "revenue"), Field(data, "interest_paid"),
     Field(data, "cost_of_goods"), Field(data, "current_liabilities"),
     total_capital(data), total_assets(data), equity(data),
     Field(data, "fixed_assets"), total_capital_debt(data)}

\* the exceptions calculate_analytics(data, previous) raises
raises(data, previous) ==
    GrowthErrors(previous) \cup UNION {GuardedErrors(d) : d \in denominators(data)}

---------------------------------------------------------------------------
(* The inputs of a call *)

Amounts == -1 .. MaxAmount

\* the dicts that hold no field, one field or two fields, each an amount
SparseDicts ==
    {EmptyDict} \cup UNION {[{f, g} -> Amounts] : f \in Fields, g \in Fields}

WorkingCapitalFields ==
    {"revenue", "cost_of_goods", "accounts_receivable", "inventory",
     "accounts_payable"}

BalanceSheetFields ==
    {"revenue", "cash", "fixed_assets", "current_liabilities",
     "noncurrent_liabilities"}

\* the dicts that hold every field of one statement, each a non-negative amount
StatementDicts ==
    UNION {[S -> 0 .. MaxAmount] :
              S \in {PLFields, WorkingCapitalFields, BalanceSheetFields}}

SmallDicts == SparseDicts \cup StatementDicts

\* the inputs of tests/test_calculations.py
TestGrossMargin == [revenue |-> 1000000, cost_of_goods |-> 600000]

TestNetProfit ==
    [revenue |-> 1000000, cost_of_goods |-> 600000, overheads |-> 200000,
     interest_paid |-> 10000, tax_paid |-> 30000]

TestReceivableDays == [revenue |-> 3650000, accounts_receivable |-> 1000000]

TestReturnOnEquity ==
    [revenue |-> 1000000, cost_of_goods |-> 600000, overheads |-> 200000,
     interest_paid |-> 10000, tax_paid |-> 30000, cash |-> 100000,
     accounts_receivable |-> 200000, inventory |-> 200000,
     fixed_assets |-> 500000, current_liabilities |-> 200000,
     noncurrent_liabilities |-> 300000]

TestInputs == {TestGrossMargin, TestNetProfit, TestReceivableDays, TestReturnOnEquity}

PreviousInputs ==
    {None, EmptyDict, [cash |-> 1], [revenue |-> 2, cost_of_goods |-> 1]}
      \cup {[revenue |-> v] : v \in Amounts}

---------------------------------------------------------------------------
(* One call of calculate_analytics *)

\* A caller passes any small dict with any previous period; the tests pass
\* their inputs with no previous period.
Init ==
    /\ \/ financial_data \in SmallDicts /\ previous_period \in PreviousInputs
       \/ financial_data \in TestInputs /\ previous_period = None
    /\ analytics = None
    /\ request = None
    /\ i = 0
    /\ results = <<>>
    /\ response = None
    /\ df = <<>>
    /\ df_result = None
    /\ NotCalled
    /\ pc = "call"

Calculate ==
    /\ pc = "call"
    /\ IF raises(financial_data, previous_period) = {}
       THEN /\ analytics' = calculate_analytics(financial_data, previous_period)
            /\ pc' = "returned"
       ELSE /\ analytics' = None
            /\ pc' = "raised"
    /\ UNCHANGED <<financial_data, previous_period, request, i, results, response,
                   df, df_result,
                   aside>>

Next == Calculate

Spec == Init /\ [][Next]_vars

---------------------------------------------------------------------------
(* calculate_batch *)

\* A FinancialData model: the two labels and the 13 amounts, the amounts a
\* request leaves out at their default 0.  Its validators admit revenue > 0
\* and every other amount >= 0.
FinancialData(period, revenue, cost_of_goods, cash) ==
    [company_name |-> "Acme Corp", period |-> period, revenue |-> revenue,
     cost_of_goods |-> cost_of_goods, overheads |-> 0, depreciation |-> 0,
     interest_paid |-> 0, tax_paid |-> 0, cash |-> cash,
     accounts_receivable |-> 0, inventory |-> 0, fixed_assets |-> 0,
     current_liabilities |-> 0, noncurrent_liabilities |-> 0,
     accounts_payable |-> 0]

\* model.model_dump(): the dict of the model's fields
model_dump(m) == [k \in DOMAIN m |-> m[k]]

\* AnalyticsResponse(input_data=..., analytics=..., previous_period=...);
\* calculated_at, the clock's time at construction, is left out
AnalyticsResponse(input_data, metrics, previous) ==
    [input_data |-> input_data, analytics |-> metrics, previous_period |-> previous]

\* BatchAnalyticsResponse(company_name=..., periods=...), which counts its periods
BatchAnalyticsResponse(company_name, periods) ==
    [company_name |-> company_name, periods |-> periods,
     total_periods |-> Len(periods)]

\* Variant of previous_of: request.periods[i-1] without the test of i, which
\* at i = 0 is Python's periods[-1], the last period.
previous_wrapped(periods, idx) == IF idx > 0 THEN periods[idx] ELSE periods[Len(periods)]

\* Variant of previous_of: the period of the pass before, kept across the
\* passes of the loop (None before the first) instead of read from the request.
previous_carried(periods, idx) == financial_data

\* request.periods[i-1] if i > 0 else None, for the 0-based index i
previous_of(periods, idx) == IF idx > 0 THEN periods[idx] ELSE None

\* the periods a request may hold
RequestPeriods ==
    {FinancialData(p, r, c, k) :
        p \in {"2023", "2024"}, r \in 1 .. MaxAmount, c \in 0 .. 1, k \in 0 .. 1}

BoundedSeq(S, n) == UNION {[1 .. m -> S] : m \in 1 .. n}

InitBatch ==
    /\ request \in {[company_name |-> "Acme Corp", periods |-> ps] :
                       ps \in BoundedSeq(RequestPeriods, MaxPeriods)}
    /\ i = 0
    /\ results = <<>>
    /\ response = None
    /\ financial_data = None
    /\ previous_period = None
    /\ analytics = None
    /\ df = <<>>
    /\ df_result = None
    /\ NotCalled
    /\ pc = "loop"

\* one pass of the for loop's body; on validated periods nothing in it raises,
\* so the except branch is never taken
BatchStep ==
    /\ pc = "loop"
    /\ i < Len(request.periods)
    /\ LET period_data == request.periods[i + 1]
           previous == previous_of(request.periods, i)
           financial_dict == model_dump(period_data)
           previous_dict == IF previous /= None THEN model_dump(previous) ELSE None
           metrics == calculate_analytics(financial_dict, previous_dict)
       IN  /\ financial_data' = financial_dict
           /\ previous_period' = previous_dict
           /\ analytics' = metrics
           /\ results' = Append(results, AnalyticsResponse(period_data, metrics, previous))
    /\ i' = i + 1
    /\ UNCHANGED <<request, response, df, df_result, pc,
                   aside>>

\* the loop is over: return the response
BatchReturn ==
    /\ pc = "loop"
    /\ i = Len(request.periods)
    /\ response' = BatchAnalyticsResponse(request.company_name, results)
    /\ pc' = "batch_returned"
    /\ UNCHANGED <<financial_data, previous_period, analytics, request, i, results,
                   df, df_result,
                   aside>>

NextBatch == BatchStep \/ BatchReturn

SpecBatch == InitBatch /\ [][NextBatch]_vars

---------------------------------------------------------------------------
(* The loop of calculate_batch, its passes run concurrently *)

(* Each period of the request is a task that runs the body of the loop for
   its own index: it first reads its period and the period before it from
   the request, then calls calculate_analytics and stores its result at its
   index.  The tasks start and finish in any order; the response is built
   once all have finished. *)
ConcurrentPeriods ==
    {FinancialData("2024", r, c, 0) : r \in 1 .. MaxAmount, c \in 0 .. 1}

Pending == [state |-> "pending", period_data |-> None, previous |-> None]

InitConcurrent ==
    /\ request \in {[company_name |-> "Acme Corp", periods |-> ps] :
                       ps \in BoundedSeq(ConcurrentPeriods, MaxPeriods)}
    /\ tasks = [j \in 1 .. Len(request.periods) |-> Pending]
    /\ results = [j \in 1 .. Len(request.periods) |-> None]
    /\ i = 0
    /\ response = None
    /\ financial_data = None
    /\ previous_period = None
    /\ analytics = None
    /\ df = <<>>
    /\ df_result = None
    /\ submitted = None
    /\ validation = None
    /\ metric_name = ""
    /\ explanation = ""
    /\ pc = "tasks"

\* a task reads its two periods
TaskStart(j) ==
    /\ pc = "tasks"
    /\ tasks[j].state = "pending"
    /\ tasks' = [tasks EXCEPT ![j] =
                    [state |-> "running",
                     period_data |-> request.periods[j],
                     previous |-> previous_of(request.periods, j - 1)]]
    /\ UNCHANGED <<financial_data, previous_period, analytics, request, i, results,
                   response, df, df_result, submitted, validation, metric_name,
                   explanation, pc>>

\* a task computes and stores its result
TaskFinish(j) ==
    /\ pc = "tasks"
    /\ tasks[j].state = "running"
    /\ LET period_data == tasks[j].period_data
           previous == tasks[j].previous
           financial_dict == model_dump(period_data)
           previous_dict == IF previous /= None THEN model_dump(previous) ELSE None
           metrics == calculate_analytics(financial_dict, previous_dict)
       IN  /\ financial_data' = financial_dict
           /\ previous_period' = previous_dict
           /\ analytics' = metrics
           /\ results' = [results EXCEPT
                            ![j] = AnalyticsResponse(period_data, metrics, previous)]
    /\ tasks' = [tasks EXCEPT ![j].state = "done"]
    /\ UNCHANGED <<request, i, response, df, df_result, submitted, validation,
                   metric_name, explanation, pc>>

\* every task has finished: return the response
Gather ==
    /\ pc = "tasks"
    /\ \A j \in DOMAIN tasks : tasks[j].state = "done"
    /\ response' = BatchAnalyticsResponse(request.company_name, results)
    /\ pc' = "gathered"
    /\ UNCHANGED <<financial_data, previous_period, analytics, request, i, results,
                   df, df_result, submitted, validation, metric_name, explanation,
                   tasks>>

NextConcurrent ==
    \/ \E j \in DOMAIN tasks : TaskStart(j)
    \/ \E j \in DOMAIN tasks : TaskFinish(j)
    \/ Gather

SpecConcurrent == InitConcurrent /\ [][NextConcurrent]_vars

---------------------------------------------------------------------------
(* calculate_analytics_df *)

(* A float of the vectorized computation before rounding: a quotient n / d
   (d > 0), an infinity of sign n, or NaN. *)
Fin(n, d) == [k |-> "fin", n |-> n, d |-> d]

Inf(sign) == [k |-> "inf", n |-> sign, d |-> 0]

NaN == [k |-> "nan", n |-> 0, d |-> 0]

\* a / b of two integer columns: x / 0 is an infinity and 0 / 0 is NaN
FloatDiv(a, b) ==
    IF b > 0 THEN Fin(a, b)
    ELSE IF b < 0 THEN Fin(-a, -b)
    ELSE IF a > 0 THEN Inf(1)
    ELSE IF a < 0 THEN Inf(-1)
    ELSE NaN

\* x * factor, for a factor > 0
FloatScale(x, factor) == IF x.k = "fin" THEN Fin(x.n * factor, x.d) ELSE x

FloatNeg(x) == IF x.k = "nan" THEN x ELSE [x EXCEPT !.n = -x.n]

\* x + y: NaN spreads, and an infinity less an infinity is NaN
FloatAdd(x, y) ==
    IF x.k = "nan" \/ y.k = "nan" THEN NaN
    ELSE IF x.k = "inf" /\ y.k = "inf" THEN (IF x.n = y.n THEN x ELSE NaN)
    ELSE IF x.k = "inf" THEN x
    ELSE IF y.k = "inf" THEN y
    ELSE Fin(x.n * y.d + y.n * x.d, x.d * y.d)

FloatSub(x, y) == FloatAdd(x, FloatNeg(y))

\* series.replace([inf, -inf], 0)
replace_inf(x) == IF x.k = "inf" THEN Fin(0, 1) ELSE x

(* A cell of a calculated column after rounding: hundredths, or NaN. *)
Cell(hundredths) == [nan |-> FALSE, value |-> hundredths]

NaNCell == [nan |-> TRUE, value |-> 0]

\* series.round(2)
round2(x) == IF x.k = "nan" THEN NaNCell ELSE Cell(RoundHalfEven(x.n * 100, x.d))

(* A period label is its string of characters, each its code point, and
   Python orders two labels lexicographically by code point. *)
RECURSIVE LabelLess(_, _)
LabelLess(a, b) ==
    IF b = <<>> THEN FALSE
    ELSE IF a = <<>> THEN TRUE
    ELSE IF Head(a) /= Head(b) THEN Head(a) < Head(b)
    ELSE LabelLess(Tail(a), Tail(b))

\* Variant of sort_values: the rows stay in the caller's order, as when the
\* sorted frame is not assigned.
sort_values_discarded(rows) == {rows}

\* the orders df.sort_values('period') may return the rows in: ascending by
\* label, rows of equal labels in either order (the default sort is not stable)
sort_values(rows) ==
    {[j \in 1 .. Len(rows) |-> rows[perm[j]]] :
        perm \in {q \in [1 .. Len(rows) -> 1 .. Len(rows)] :
                    /\ \A x, y \in 1 .. Len(rows) : x /= y => q[x] /= q[y]
                    /\ \A x, y \in 1 .. Len(rows) :
                          x < y => ~LabelLess(rows[q[y]].period, rows[q[x]].period)}}

\* the revenue column's pct_change() * 100 at a row: NaN at the first row
pct_change(row, shifted) ==
    IF shifted = None THEN NaN
    ELSE FloatScale(FloatSub(FloatDiv(row.revenue, shifted.revenue), Fin(1, 1)), 100)

\* the columns the function adds to one row; shifted is the row before it
calculated_row(row, shifted) ==
    LET gm == row.revenue - row.cost_of_goods
        op == gm - row.overheads
        eb == op + row.depreciation
        np == op - row.interest_paid - row.tax_paid
        ar_days == FloatScale(FloatDiv(row.accounts_receivable, row.revenue), 365)
        inv_days == FloatScale(FloatDiv(row.inventory, row.cost_of_goods), 365)
        ap_days == FloatScale(FloatDiv(row.accounts_payable, row.cost_of_goods), 365)
        ca == row.cash + row.accounts_receivable + row.inventory
        wc == ca - row.current_liabilities
        ta == ca + row.fixed_assets
        tl == row.current_liabilities + row.noncurrent_liabilities
        eq == ta - tl
        tc == wc + row.fixed_assets
        tcd == eq + tl
        final(x) == round2(replace_inf(x))
    IN  [revenue_growth_percent |-> final(pct_change(row, shifted)),
         gross_margin |-> gm,
         gross_margin_percent |-> final(FloatScale(FloatDiv(gm, row.revenue), 100)),
         operating_profit |-> op,
         operating_profit_percent |-> final(FloatScale(FloatDiv(op, row.revenue), 100)),
         ebitda |-> eb,
         ebitda_percent |-> final(FloatScale(FloatDiv(eb, row.revenue), 100)),
         net_profit |-> np,
         net_profit_percent |-> final(FloatScale(FloatDiv(np, row.revenue), 100)),
         interest_coverage |-> final(replace_inf(FloatDiv(op, row.interest_paid))),
         accounts_receivable_days |-> final(ar_days),
         inventory_days |-> final(inv_days),
         accounts_payable_days |-> final(ap_days),
         working_capital_days |-> final(FloatSub(FloatAdd(ar_days, inv_days), ap_days)),
         current_assets |-> ca,
         working_capital |-> wc,
         working_capital_per_100 |-> final(FloatScale(FloatDiv(wc, row.revenue), 100)),
         current_ratio |-> final(FloatDiv(ca, row.current_liabilities)),
         total_assets |-> ta,
         total_liabilities |-> tl,
         equity |-> eq,
         total_capital |-> tc,
         return_on_capital |-> final(FloatScale(FloatDiv(op, tc), 100)),
         asset_turnover |-> final(FloatDiv(row.revenue, ta)),
         return_on_equity |-> final(FloatScale(FloatDiv(np, eq), 100)),
         return_on_assets |-> final(FloatScale(FloatDiv(np, ta), 100)),
         fixed_assets_turnover |-> final(FloatDiv(row.revenue, row.fixed_assets)),
         debt_to_equity |-> final(FloatDiv(tl, eq)),
         total_capital_debt |-> tcd,
         debt_to_capital |-> final(FloatDiv(tl, tcd)),
         equity_ratio |-> final(FloatScale(FloatDiv(eq, ta), 100)),
         operating_cash_flow |-> final(Fin(np + row.depreciation, 1))]

\* the returned frame for the rows in sorted order: each row keeps its
\* columns and gains the calculated ones
calculate_analytics_df(sorted) ==
    [j \in 1 .. Len(sorted) |->
        calculated_row(sorted[j], IF j > 1 THEN sorted[j - 1] ELSE None) @@ sorted[j]]

\* a row of a caller's DataFrame: a label and the 13 amount columns
Row(period, revenue, cost_of_goods) ==
    [period |-> period, revenue |-> revenue, cost_of_goods |-> cost_of_goods,
     overheads |-> 0, depreciation |-> 0, interest_paid |-> 0, tax_paid |-> 0,
     cash |-> 0, accounts_receivable |-> 1, inventory |-> 1, fixed_assets |-> 0,
     current_liabilities |-> 0, noncurrent_liabilities |-> 0,
     accounts_payable |-> 0]

\* the labels "Q1", "Q10" and "Q9"
PeriodLabels == {<<81, 49>>, <<81, 49, 48>>, <<81, 57>>}

FrameRows ==
    {Row(p, r, c) : p \in PeriodLabels, r \in -1 .. MaxAmount, c \in {0, MaxAmount}}

InitDf ==
    /\ df \in BoundedSeq(FrameRows, MaxRows)
    /\ df_result = None
    /\ financial_data = None
    /\ previous_period = None
    /\ analytics = None
    /\ request = None
    /\ i = 0
    /\ results = <<>>
    /\ response = None
    /\ NotCalled
    /\ pc = "call_df"

\* Variant of CalculateDf: the caller's frame is sorted in place and the
\* calculated columns are added to it.
CalculateDfInPlace ==
    /\ pc = "call_df"
    /\ \E sorted \in sort_values(df) :
          /\ df_result' = calculate_analytics_df(sorted)
          /\ df' = calculate_analytics_df(sorted)
    /\ pc' = "df_returned"
    /\ UNCHANGED <<financial_data, previous_period, analytics, request, i, results,
                   response, aside>>

CalculateDf ==
    /\ pc = "call_df"
    /\ \E sorted \in sort_values(df) : df_result' = calculate_analytics_df(sorted)
    /\ pc' = "df_returned"
    /\ UNCHANGED <<financial_data, previous_period, analytics, request, i, results,
                   response, df,
                   aside>>

NextDf == CalculateDf

SpecDf == InitDf /\ [][NextDf]_vars

---------------------------------------------------------------------------
(* A caller of either function: of calculate_analytics on its two dicts, or
   of calculate_analytics_df on its frame *)
InitEither == Init \/ InitDf

NextEither == Calculate \/ CalculateDf

SpecEither == InitEither /\ [][NextEither]_vars

---------------------------------------------------------------------------
(* validate_financial_data *)

(* A value of the dict to validate is a number or None: a number is the
   1-tuple of it and None the empty tuple.  A message is the tuple of the
   parts of its f-string, and "" the empty tuple. *)
required_fields == <<"revenue">>

non_negative_fields ==
    <<"revenue", "cash", "accounts_receivable", "inventory", "fixed_assets">>

\* the first index of a list that a for loop's test holds of
First(indices) == CHOOSE k \in indices : \A j \in indices : k <= j

validate_financial_data(d) ==
    LET missing ==
            {k \in DOMAIN required_fields :
                \/ required_fields[k] \notin DOMAIN d
                \/ d[required_fields[k]] = <<>>}
        negative ==
            {k \in DOMAIN non_negative_fields :
                /\ non_negative_fields[k] \in DOMAIN d
                /\ d[non_negative_fields[k]][1] < 0}
    IN  IF missing /= {}
        THEN <<FALSE, <<"Missing required field: ", required_fields[First(missing)]>>>>
        ELSE IF negative /= {}
        THEN <<FALSE, <<non_negative_fields[First(negative)], " cannot be negative">>>>
        ELSE <<TRUE, <<>>>>

\* the fields of a dict to validate: the five the function tests and one it
\* does not
SubmittedFields ==
    {"revenue", "cash", "accounts_receivable", "inventory", "fixed_assets",
     "cost_of_goods"}

\* the dicts to validate: each field left out, negative, zero or positive, and
\* revenue None as well
SubmittedDicts ==
    UNION {{d \in [S -> {<<>>, <<-1>>, <<0>>, <<1>>}] :
               \A f \in S : d[f] = <<>> => f = "revenue"} :
           S \in SUBSET SubmittedFields}

InitValidate ==
    /\ submitted \in SubmittedDicts
    /\ validation = None
    /\ financial_data = None
    /\ previous_period = None
    /\ analytics = None
    /\ request = None
    /\ i = 0
    /\ results = <<>>
    /\ response = None
    /\ df = <<>>
    /\ df_result = None
    /\ metric_name = ""
    /\ explanation = ""
    /\ tasks = <<>>
    /\ pc = "validate"

Validate ==
    /\ pc = "validate"
    /\ validation' = validate_financial_data(submitted)
    /\ pc' = "validated"
    /\ UNCHANGED <<financial_data, previous_period, analytics, request, i, results,
                   response, df, df_result, submitted, metric_name, explanation,
                   tasks>>

NextValidate == Validate

SpecValidate == InitValidate /\ [][NextValidate]_vars

---------------------------------------------------------------------------
(* get_metric_explanation *)

\* Variant of explanations: the return on equity is explained under the key
\* 'roe', the name the examples of models.py use.
explanations_roe ==
    "revenue_growth_percent" :> "Year-over-year revenue growth rate"
    @@ "gross_margin_percent" :> "Profit after direct costs (COGS)"
    @@ "operating_profit_percent" :> "Profit after all operating expenses"
    @@ "net_profit_percent" :> "Bottom line profit after all expenses"
    @@ "ebitda_percent" :> "Earnings before interest, tax, depreciation, amortization"
    @@ "interest_coverage" :> "Ability to pay interest from operating profit"
    @@ "accounts_receivable_days" :> "Average days to collect payment from customers"
    @@ "inventory_days" :> "Average days inventory sits before being sold"
    @@ "accounts_payable_days" :> "Average days before paying suppliers"
    @@ "working_capital_days" :> "Cash conversion cycle length"
    @@ "working_capital_per_100" :> "Working capital as percentage of revenue"
    @@ "current_ratio" :> "Ability to pay short-term debts"
    @@ "return_on_capital" :> "Profit generated from working capital + fixed assets"
    @@ "asset_turnover" :> "Revenue efficiency per dollar of assets"
    @@ "roe" :> "Profit generated for shareholders"
    @@ "return_on_assets" :> "Profit efficiency per dollar of assets"
    @@ "fixed_assets_turnover" :> "Revenue per dollar of fixed assets"
    @@ "debt_to_equity" :> "Financial leverage ratio"
    @@ "debt_to_capital" :> "Proportion of debt in capital structure"
    @@ "equity_ratio" :> "Proportion of assets financed by equity"
    @@ "operating_cash_flow" :> "Approximated cash from operations"

\* the dict of the function
explanations ==
    "revenue_growth_percent" :> "Year-over-year revenue growth rate"
    @@ "gross_margin_percent" :> "Profit after direct costs (COGS)"
    @@ "operating_profit_percent" :> "Profit after all operating expenses"
    @@ "net_profit_percent" :> "Bottom line profit after all expenses"
    @@ "ebitda_percent" :> "Earnings before interest, tax, depreciation, amortization"
    @@ "interest_coverage" :> "Ability to pay interest from operating profit"
    @@ "accounts_receivable_days" :> "Average days to collect payment from customers"
    @@ "inventory_days" :> "Average days inventory sits before being sold"
    @@ "accounts_payable_days" :> "Average days before paying suppliers"
    @@ "working_capital_days" :> "Cash conversion cycle length"
    @@ "working_capital_per_100" :> "Working capital as percentage of revenue"
    @@ "current_ratio" :> "Ability to pay short-term debts"
    @@ "return_on_capital" :> "Profit generated from working capital + fixed assets"
    @@ "asset_turnover" :> "Revenue efficiency per dollar of assets"
    @@ "return_on_equity" :> "Profit generated for shareholders"
    @@ "return_on_assets" :> "Profit efficiency per dollar of assets"
    @@ "fixed_assets_turnover" :> "Revenue per dollar of fixed assets"
    @@ "debt_to_equity" :> "Financial leverage ratio"
    @@ "debt_to_capital" :> "Proportion of debt in capital structure"
    @@ "equity_ratio" :> "Proportion of assets financed by equity"
    @@ "operating_cash_flow" :> "Approximated cash from operations"

get_metric_explanation(name) == Get(explanations, name, "No explanation available")

\* names that are not metrics: the input fields, the intermediate values, the
\* short names of models.py and misspellings
OtherNames ==
    Fields \cup
    {"period", "company_name", "gross_margin", "operating_profit", "ebitda",
     "net_profit", "working_capital", "equity", "roe", "gross_margin_pct", "",
     "Gross_Margin_Percent", "gross_margin_percent ", "revenue_growth",
     "GROSS_MARGIN_PERCENT"}

InitExplain ==
    /\ financial_data \in TestInputs
    /\ previous_period = None
    /\ analytics = None
    /\ request = None
    /\ i = 0
    /\ results = <<>>
    /\ response = None
    /\ df = <<>>
    /\ df_result = None
    /\ NotCalled
    /\ pc = "call"

\* the caller looks up a key of the returned dict, or another name
Explain ==
    /\ pc = "returned"
    /\ \E name \in DOMAIN analytics \cup OtherNames :
          /\ metric_name' = name
          /\ explanation' = get_metric_explanation(name)
    /\ pc' = "explained"
    /\ UNCHANGED <<financial_data, previous_period, analytics, request, i, results,
                   response, df, df_result, submitted, validation, tasks>>

NextExplain == Calculate \/ Explain

SpecExplain == InitExplain /\ [][NextExplain]_vars

---------------------------------------------------------------------------
(* What the specification says of the engine *)

\* the 21 metric names of the specification's table
MetricNames ==
    {"revenue_growth_percent", "gross_margin_percent", "operating_profit_percent",
     "net_profit_percent", "ebitda_percent", "interest_coverage",
     "accounts_receivable_days", "inventory_days", "accounts_payable_days",
     "working_capital_days", "working_capital_per_100", "current_ratio",
     "return_on_capital", "asset_turnover", "return_on_equity",
     "return_on_assets", "fixed_assets_turnover", "debt_to_equity",
     "debt_to_capital", "equity_ratio", "operating_cash_flow"}

\* the metrics that are a ratio with a guarded denominator
GuardedMetrics ==
    MetricNames \ {"revenue_growth_percent", "working_capital_days",
                   "operating_cash_flow"}

\* a record's amount, 0 when the record leaves the field out
Amount(data, f) == IF f \in DOMAIN data THEN data[f] ELSE 0

AmountOfAssets(data) ==
    Amount(data, "cash") + Amount(data, "accounts_receivable")
      + Amount(data, "inventory") + Amount(data, "fixed_assets")

AmountOfEquity(data) ==
    AmountOfAssets(data) - Amount(data, "current_liabilities")
      - Amount(data, "noncurrent_liabilities")

AmountOfNetProfit(data) ==
    Amount(data, "revenue") - Amount(data, "cost_of_goods") - Amount(data, "overheads")
      - Amount(data, "interest_paid") - Amount(data, "tax_paid")

\* the denominator the specification's table guards for a metric
Denominator(data, m) ==
    CASE m \in {"gross_margin_percent", "operating_profit_percent",
                "net_profit_percent", "ebitda_percent", "accounts_receivable_days",
                "working_capital_per_100"} -> Amount(data, "revenue")
      [] m = "interest_coverage" -> Amount(data, "interest_paid")
      [] m \in {"inventory_days", "accounts_payable_days"} ->
            Amount(data, "cost_of_goods")
      [] m = "current_ratio" -> Amount(data, "current_liabilities")
      [] m = "return_on_capital" ->
            AmountOfAssets(data) - Amount(data, "current_liabilities")
      [] m \in {"asset_turnover", "return_on_assets", "equity_ratio",
                "debt_to_capital"} -> AmountOfAssets(data)
      [] m \in {"return_on_equity", "debt_to_equity"} -> AmountOfEquity(data)
      [] m = "fixed_assets_turnover" -> Amount(data, "fixed_assets")

\* h hundredths is n / d * factor rounded to 2 decimals: no hundredth is
\* nearer, and of two equally near ones h is the even one (d > 0)
IsRound2(h, n, d, factor) ==
    LET g == Gcd(Abs(n), d)
        x == (n \div g) * factor * 100
        e == d \div g
    IN  /\ 2 * Abs(h * e - x) <= e
        /\ 2 * Abs(h * e - x) = e => h % 2 = 0

\* the columns of a returned row that the caller passed in
InputOf(row) == [k \in Fields |-> row[k]]

\* the metrics of a batch row computed on its own, from the row and the row
\* before it
Standalone(frame, j) ==
    calculate_analytics(InputOf(frame[j]),
                        IF j > 1 THEN InputOf(frame[j - 1]) ELSE None)

\* C1: every row of the frame calculate_analytics_df returns carries, for
\* each of the 21 metrics, the value calculate_analytics gives for that row
\* and the row before it (no previous period for the first row).
C1_BatchEqualsStandalone ==
    pc = "df_returned" =>
        \A j \in 1 .. Len(df_result) : \A m \in MetricNames :
            df_result[j][m] = Cell(Standalone(df_result, j)[m])

\* C2: a metric of calculate_analytics whose guarded denominator is 0 or
\* negative is exactly 0.
C2_GuardedMetricIsZero ==
    pc = "returned" =>
        \A m \in GuardedMetrics :
            Denominator(financial_data, m) <= 0 => analytics[m] = 0

\* C2's case: a negative revenue under a non-zero gross margin, and a
\* negative equity under a non-zero net profit.
C2_Witness ==
    /\ pc = "returned"
    /\ Amount(financial_data, "revenue") < 0
    /\ Amount(financial_data, "cost_of_goods") = 0
    /\ AmountOfEquity(financial_data) < 0
    /\ analytics["gross_margin_percent"] = 0
    /\ analytics["return_on_equity"] = 0

\* C3: in every row calculate_analytics_df returns, a metric whose guarded
\* denominator is 0 or negative in that row is exactly 0: not NaN, not a
\* quotient.
C3_DfGuardedMetricIsZero ==
    pc = "df_returned" =>
        \A j \in 1 .. Len(df_result) : \A m \in GuardedMetrics :
            Denominator(InputOf(df_result[j]), m) <= 0 => df_result[j][m] = Cell(0)

\* C4: the keys of the dict calculate_analytics returns are exactly the 21
\* metric names.
C4_ExactlyTheMetricNames ==
    pc = "returned" =>
        /\ DOMAIN analytics = MetricNames
        /\ Cardinality(DOMAIN analytics) = 21

\* C4's case: a call with no field at all and no previous period.
C4_Witness ==
    /\ pc = "returned"
    /\ financial_data = EmptyDict
    /\ previous_period = None
    /\ DOMAIN analytics = MetricNames

\* C5: revenue_growth_percent is 0 when there is no previous period, or its
\* revenue is missing, zero or negative.
C5_NoGrowthWithoutPreviousRevenue ==
    (/\ pc = "returned"
     /\ \/ previous_period = None
        \/ "revenue" \notin DOMAIN previous_period
        \/ previous_period["revenue"] <= 0)
        => analytics["revenue_growth_percent"] = 0

\* C5's case: a positive current revenue after a negative previous revenue.
C5_Witness ==
    /\ pc = "returned"
    /\ Amount(financial_data, "revenue") > 0
    /\ previous_period = [revenue |-> -1]
    /\ analytics["revenue_growth_percent"] = 0

\* C6: calculate_batch returns one result per period of the request, in the
\* request's order, each pairing the period with calculate_analytics of the
\* period and the one before it, and with that previous period (None for the
\* first).
C6_BatchDelegates ==
    pc = "batch_returned" =>
        /\ Len(response.periods) = Len(request.periods)
        /\ \A j \in 1 .. Len(request.periods) :
              LET previous == IF j > 1 THEN request.periods[j - 1] ELSE None
              IN  /\ response.periods[j].input_data = request.periods[j]
                  /\ response.periods[j].previous_period = previous
                  /\ response.periods[j].analytics =
                        calculate_analytics(request.periods[j], previous)

\* C6's case: a batch whose second period grew over its first.
C6_Witness ==
    /\ pc = "batch_returned"
    /\ Len(response.periods) >= 2
    /\ response.periods[1].previous_period = None
    /\ response.periods[2].previous_period = request.periods[1]
    /\ response.periods[2].analytics["revenue_growth_percent"] > 0

\* C7: with revenue > 0, gross_margin_percent is
\* (revenue - cost_of_goods) / revenue * 100 rounded to 2 decimals; the
\* test's input gives 40.0.
C7_GrossMarginPercent ==
    (pc = "returned" /\ Amount(financial_data, "revenue") > 0) =>
        /\ IsRound2(analytics["gross_margin_percent"],
                    Amount(financial_data, "revenue")
                      - Amount(financial_data, "cost_of_goods"),
                    Amount(financial_data, "revenue"), 100)
        /\ financial_data = TestGrossMargin => analytics["gross_margin_percent"] = 4000

\* C7's case: a margin of two thirds, which the rounding changes.
C7_Witness ==
    /\ pc = "returned"
    /\ Amount(financial_data, "revenue") = 3
    /\ Amount(financial_data, "cost_of_goods") = 1
    /\ Amount(financial_data, "overheads") = 1
    /\ analytics["gross_margin_percent"] = 6667

C9_NetProfitPercent ==
    (pc = "returned" /\ Amount(financial_data, "revenue") > 0) =>
        /\ IsRound2(analytics["net_profit_percent"], AmountOfNetProfit(financial_data),
                    Amount(financial_data, "revenue"), 100)
        /\ financial_data = TestNetProfit => analytics["net_profit_percent"] = 1600

\* C9's case: the test's input, with both interest and tax paid.
C9_Witness ==
    /\ pc = "returned"
    /\ financial_data = TestNetProfit
    /\ analytics["net_profit_percent"] = 1600

\* C10: with equity > 0, return_on_equity is net_profit / equity * 100
\* rounded to 2 decimals; the test's input gives 32.0.
C10_ReturnOnEquity ==
    (pc = "returned" /\ AmountOfEquity(financial_data) > 0) =>
        /\ IsRound2(analytics["return_on_equity"], AmountOfNetProfit(financial_data),
                    AmountOfEquity(financial_data), 100)
        /\ financial_data = TestReturnOnEquity => analytics["return_on_equity"] = 3200

\* C10's case: the test's input, net profit 160,000 over equity 500,000.
C10_Witness ==
    /\ pc = "returned"
    /\ financial_data = TestReturnOnEquity
    /\ analytics["return_on_equity"] = 3200

\* C11: with revenue > 0, accounts_receivable_days is accounts_receivable /
\* revenue * 365 rounded to 2 decimals (test_days_calculation: revenue
\* 3,650,000 and receivables 1,000,000 give 100.0).
C11_ReceivableDays ==
    (pc = "returned" /\ Amount(financial_data, "revenue") > 0) =>
        /\ IsRound2(analytics["accounts_receivable_days"],
                    Amount(financial_data, "accounts_receivable"),
                    Amount(financial_data, "revenue"), 365)
        /\ financial_data = TestReceivableDays =>
               analytics["accounts_receivable_days"] = 10000

\* C11's case: 2 / 3 * 365 = 243.33..., a quotient that the rounding changes
C11_Witness ==
    /\ pc = "returned"
    /\ financial_data = [revenue |-> 3, accounts_receivable |-> 2]
    /\ analytics["accounts_receivable_days"] = 24333

\* C12: validate_financial_data returns (False, message) exactly when revenue
\* is missing, None, zero or negative, or one of cash, accounts_receivable,
\* inventory, fixed_assets is present and negative, and (True, "") otherwise.
C12_RejectsExactlyTheInvalid ==
    pc = "validated" =>
        LET rejected ==
                \/ "revenue" \notin DOMAIN submitted
                \/ submitted["revenue"] = <<>>
                \/ submitted["revenue"][1] <= 0
                \/ \E f \in {"cash", "accounts_receivable", "inventory",
                              "fixed_assets"} :
                       f \in DOMAIN submitted /\ submitted[f][1] < 0
        IN  IF rejected
            THEN validation[1] = FALSE /\ validation[2] /= <<>>
            ELSE validation = <<TRUE, <<>>>>

C14_ConcurrentEqualsSequential ==
    pc \in {"tasks", "gathered"} =>
        LET sequential(j) ==
                LET before == IF j > 1 THEN request.periods[j - 1] ELSE None
                IN  [input_data |-> request.periods[j],
                     analytics |-> calculate_analytics(request.periods[j], before),
                     previous_period |-> before]
        IN  /\ \A j \in DOMAIN tasks :
                  tasks[j].state = "done" => results[j] = sequential(j)
            /\ pc = "gathered" =>
                  /\ Len(response.periods) = Len(request.periods)
                  /\ \A j \in DOMAIN response.periods :
                        response.periods[j] = sequential(j)

\* C14's case: the second period's computation has finished, with a growth
\* over the first period, before the first period's computation has started
C14_Witness ==
    /\ pc = "tasks"
    /\ Len(tasks) = 2
    /\ tasks[1].state = "pending"
    /\ tasks[2].state = "done"
    /\ results[2].analytics["revenue_growth_percent"] > 0

\* C16: get_metric_explanation returns a descriptive string, other than the
\* fallback, for each of the 21 names calculate_analytics emits, and the
\* fallback 'No explanation available' for every other name.
C16_ExplainsExactlyTheMetrics ==
    pc = "explained" =>
        IF metric_name \in DOMAIN analytics
        THEN explanation \notin {"No explanation available", ""}
        ELSE explanation = "No explanation available"

\* C16's case: the name under which the return on equity is emitted
C16_Witness ==
    /\ pc = "explained"
    /\ metric_name = "return_on_equity"
    /\ metric_name \in DOMAIN analytics
    /\ explanation = "Profit generated for shareholders"

\* a <= b in the lexicographic order of two labels: a is a prefix of b, or at
\* the first place where they differ a holds the smaller character
LexLeq(a, b) ==
    \E k \in 0 .. Len(a) :
        /\ k <= Len(b)
        /\ \A m \in 1 .. k : a[m] = b[m]
        /\ \/ k = Len(a)
           \/ k < Len(b) /\ a[k + 1] < b[k + 1]

\* the columns of a returned row that the caller supplied
SuppliedOf(row) == [k \in Fields \cup {"period"} |-> row[k]]

\* how many rows of a frame are the given row
Occurrences(frame, row) == Cardinality({j \in DOMAIN frame : frame[j] = row})

C18_ArgumentsUnchanged ==
    [][/\ financial_data' = financial_data
       /\ previous_period' = previous_period
       /\ df' = df]_vars

\* C18's case: the caller's frame holds "Q9" before "Q1" and no calculated
\* column, after a call that returned the rows reordered and with the columns
C18_Witness ==
    /\ pc = "df_returned"
    /\ Len(df) = 2
    /\ df[1].period = <<81, 57>> /\ df[2].period = <<81, 49>>
    /\ DOMAIN df[1] = Fields \cup {"period"}
    /\ df_result[1].period = <<81, 49>>
    /\ "gross_margin_percent" \in DOMAIN df_result[1]

\* the revenue a previous period holds: none when it is None or lacks the field
RevenueOf(previous) ==
    IF previous /= None /\ "revenue" \in DOMAIN previous
    THEN {previous["revenue"]}
    ELSE {}

\* the previous period that holds the same revenue and nothing else
RevenueOnly(previous) ==
    IF RevenueOf(previous) = {} THEN None ELSE [revenue |-> previous["revenue"]]

\* C19: the previous period influences revenue_growth_percent only, and only
\* through its revenue.  Any two previous records give the same current
\* record the same other 20 metrics: those of the call without a previous
\* period.  Two previous records of equal revenue give it the same
\* revenue_growth_percent: that of the call with a previous period holding
\* that revenue alone.
C19_PreviousInfluencesGrowthOnly ==
    (pc = "returned" /\ financial_data \notin TestInputs) =>
        LET alone == calculate_analytics(financial_data, None)
            same_revenue ==
                calculate_analytics(financial_data, RevenueOnly(previous_period))
        IN  /\ DOMAIN alone = DOMAIN analytics
            /\ \A m \in DOMAIN analytics \ {"revenue_growth_percent"} :
                  alone[m] = analytics[m]
            /\ same_revenue = analytics

\* C19's case: a previous period that holds a cost of goods beside its
\* revenue, and another previous revenue that gives another growth
C19_Witness ==
    /\ pc = "returned"
    /\ financial_data = [revenue |-> 3, cost_of_goods |-> 1]
    /\ previous_period = [revenue |-> 2, cost_of_goods |-> 1]
    /\ analytics["revenue_growth_percent"] = 5000
    /\ calculate_analytics(financial_data, [revenue |-> 1])["revenue_growth_percent"]
          = 20000

=============================================================================
